---- MODULE Spec2Model ----
(***************************************************************************)
(* Dilated and causal convolution notebook (causal_conv.ipynb).            *)
(*                                                                         *)
(* A tensor is a record [shape, data]: shape is the triple                 *)
(* <<batch, time, channel>> and data is the row-major flattening of the    *)
(* elements, which is the layout tf.reshape preserves.  Indices are        *)
(* 0-based as in the notebook; data is a TLA+ sequence (1-based).          *)
(***************************************************************************)
EXTENDS Integers, Sequences, FiniteSets

VARIABLES input_len, filter_width, dilation, X, H,
          Y, X_pad, padded, reshaped, transposed, prepared,
          pc, raised

vars == <<input_len, filter_width, dilation, X, H,
          Y, X_pad, padded, reshaped, transposed, prepared, pc, raised>>

(* ------------------------------ bounds -------------------------------- *)

MaxLen == 8
MaxWidth == 3
MaxDilation == 3
\* The dilation rate the notebook's cell 8 is written with.
NotebookDilation == 2

(* --------------------------- tensor helpers --------------------------- *)

\* A Python name that no statement has assigned yet.
Unbound == [shape |-> <<>>, data |-> <<>>]

\* Element (b, i, c) of a rank-3 tensor, row-major.
At(t, b, i, c) == t.data[(b * t.shape[2] + i) * t.shape[3] + c + 1]

InBounds(t, b, i, c) ==
    /\ 0 <= b /\ b < t.shape[1]
    /\ 0 <= i /\ i < t.shape[2]
    /\ 0 <= c /\ c < t.shape[3]

\* Row-major layout: the number of elements of a shape, and the batch, time
\* and channel index of the n-th element (n from 1).
Size(shape) == shape[1] * shape[2] * shape[3]
IdxB(shape, n) == (n - 1) \div (shape[2] * shape[3])
IdxT(shape, n) == ((n - 1) \div shape[3]) % shape[2]
IdxC(shape, n) == (n - 1) % shape[3]

NumEl(t) == Size(t.shape)

RECURSIVE SumSeq(_)
SumSeq(s) == IF s = <<>> THEN 0 ELSE Head(s) + SumSeq(Tail(s))

(* ------------------------- tensorflow primitives ---------------------- *)

\* tf.pad(t, [[0, 0], [before, after], [0, 0]], 'CONSTANT'): the time axis
\* gains `before` leading and `after` trailing steps holding `fill`
\* (tf.pad's constant is 0; the fill is a parameter so that the same layout
\* code can carry provenance tags).
tf_pad_fill(t, before, after, fill) ==
    LET shp == <<t.shape[1], before + t.shape[2] + after, t.shape[3]>> IN
    [shape |-> shp,
     data  |-> [n \in 1..Size(shp) |->
                  LET i == IdxT(shp, n) IN
                  IF i < before \/ i >= before + t.shape[2]
                  THEN fill
                  ELSE At(t, IdxB(shp, n), i - before, IdxC(shp, n))]]

tf_pad(t, before, after) == tf_pad_fill(t, before, after, 0)

\* tf.reshape(t, dims), dims holding at most one -1: the -1 is inferred
\* from the element count; the flat data is untouched.
KnownSize(dims) ==
    (IF dims[1] = -1 THEN 1 ELSE dims[1])
  * (IF dims[2] = -1 THEN 1 ELSE dims[2])
  * (IF dims[3] = -1 THEN 1 ELSE dims[3])

ReshapeDims(t, dims) ==
    [j \in 1..3 |-> IF dims[j] = -1 THEN NumEl(t) \div KnownSize(dims)
                                     ELSE dims[j]]

ReshapeOK(t, dims) ==
    LET s == ReshapeDims(t, dims) IN s[1] * s[2] * s[3] = NumEl(t)

tf_reshape(t, dims) ==
    [shape |-> ReshapeDims(t, dims), data |-> t.data]

\* A transpose that relabels the axes and leaves the data where it is.
tf_transpose_relabel(t) ==
    [shape |-> <<t.shape[2], t.shape[1], t.shape[3]>>, data |-> t.data]

\* tf.transpose(t, perm=[1, 0, 2]): swaps the first two axes.
tf_transpose(t) ==
    LET shp == <<t.shape[2], t.shape[1], t.shape[3]>> IN
    [shape |-> shp,
     data  |-> [n \in 1..Size(shp) |->
                  At(t, IdxT(shp, n), IdxB(shp, n), IdxC(shp, n))]]

\* The window tf.nn.conv1d reads for output element (b, i, .): the input
\* elements (b, i + k, c) for k in [0, fw), c in [0, channels), in that order.
Window(input, fw, b, i) ==
    [n \in 1..(fw * input.shape[3]) |->
        At(input, b, i + ((n - 1) \div input.shape[3]), (n - 1) % input.shape[3])]

\* tf.nn.conv1d(input, filters, 1, 'VALID') is defined when the channel counts
\* agree and the input is at least as long as the filter.
Conv1dOK(input, filters) ==
    /\ input.shape[3] = filters.shape[2]
    /\ input.shape[2] >= filters.shape[1]

\* out[b, i, o] = sum over k, c of input[b, i + k, c] * filters[k, c, o]
tf_nn_conv1d(input, filters) ==
    LET shp == <<input.shape[1], input.shape[2] - filters.shape[1] + 1, filters.shape[3]>> IN
    [shape |-> shp,
     data  |-> [m \in 1..Size(shp) |->
                  LET w == Window(input, filters.shape[1], IdxB(shp, m), IdxT(shp, m))
                  IN  SumSeq([n \in 1..Len(w) |->
                                w[n] * At(filters, (n - 1) \div input.shape[3],
                                          (n - 1) % input.shape[3], IdxC(shp, m))])]]

\* The same convolution carrying provenance: each output element is the set
\* of input elements its sum reads.
conv1d_reads(input, fw) ==
    LET shp == <<input.shape[1], input.shape[2] - fw + 1, 1>> IN
    [shape |-> shp,
     data  |-> [m \in 1..Size(shp) |->
                  LET w == Window(input, fw, IdxB(shp, m), IdxT(shp, m))
                  IN  {w[n] : n \in 1..Len(w)}]]

(* ------------------------- notebook statements ------------------------ *)

\* The pad amount without its outer modulo: a whole block when d divides len.
PadAmountNoMod(len, d) == d - (len % d)

\* (dilation - input_len % dilation) % dilation
PadAmount(len, d) == (d - (len % d)) % d

\* padded = tf.pad(X, [[0, 0], [0, pad_amount], [0, 0]])
Padded(x, len, d) == tf_pad(x, 0, PadAmount(len, d))

\* The reshape with its two leading dimensions exchanged.
ReshapedSwapped(p, d) == tf_reshape(p, <<d, -1, 1>>)

\* reshaped = tf.reshape(padded, [-1, dilation, 1])
Reshaped(p, d) == tf_reshape(p, <<-1, d, 1>>)

\* The reshape to [-1, dilation, 1] where [dilation, -1, 1] is meant.
SubsampledSwapped(t, d) == tf_reshape(t, <<-1, d, 1>>)

\* X_pad = tf.reshape(transposed, [dilation, -1, 1]); also `prepared`
Subsampled(t, d) == tf_reshape(t, <<d, -1, 1>>)

\* reshape, transpose, reshape: the padded signal as `dilation` streams.
SplitLayout(p, d) == Subsampled(tf_transpose(Reshaped(p, d)), d)

\* Turn the input signal into multiple subsampled signals.
Split(x, len, d) == SplitLayout(Padded(x, len, d), d)

\* The padding on the wrong side: [[0, 0], [0, filter_width - 1], [0, 0]].
CausalPadFillRight(t, fw, fill) == tf_pad_fill(t, 0, fw - 1, fill)

\* A centred padding, of (filter_width - 1) / 2 steps.
CausalPadFillHalf(t, fw, fill) == tf_pad_fill(t, (fw - 1) \div 2, 0, fill)

\* X_pad = tf.pad(X_pad, [[0, 0], [filter_width - 1, 0], [0, 0]], 'CONSTANT')
CausalPadFill(t, fw, fill) == tf_pad_fill(t, fw - 1, 0, fill)

CausalPad(t, fw) == CausalPadFill(t, fw, 0)

\* Y = tf.reshape(transposed, [1, -1, 1])
Merged(t) == tf_reshape(t, <<1, -1, 1>>)

\* A merge that forgets the transpose.
MergeNoTranspose(y, d) == Merged(Subsampled(y, d))

\* Undo the subsampling.
Merge(y, d) == Merged(tf_transpose(Subsampled(y, d)))

\* Non-dilated causal convolution (pad, then valid convolution).
CausalConv(x, h) == tf_nn_conv1d(CausalPad(x, h.shape[1]), h)

\* Dilated causal convolution: split, causal pad, convolve, merge.
DilatedCausalConv(x, h, len, d) ==
    Merge(tf_nn_conv1d(CausalPad(Split(x, len, d), h.shape[1]), h), d)

\* Provenance of the dilated causal convolution.  Every position of the
\* padded signal p is tagged <<batch, time>>, the causal padding is tagged
\* LeftPadTag, and the tags run through the same split, pad, convolve and
\* merge: element (0, i, 0) of the result is the set of tags that output
\* sample i sums over.
LeftPadTag == <<-1, -1>>

PositionTags(p) ==
    [shape |-> p.shape,
     data  |-> [n \in 1..Size(p.shape) |-> <<IdxB(p.shape, n), IdxT(p.shape, n)>>]]

DilatedReads(p, fw, d) ==
    Merge(conv1d_reads(CausalPadFill(SplitLayout(PositionTags(p), d), fw, LeftPadTag), fw), d)

(* ------------------------------ inputs -------------------------------- *)

\* X = tf.range(input_len); X = tf.reshape(X, [1, input_len, 1])
Ramp(len) == [shape |-> <<1, len, 1>>, data |-> [n \in 1..len |-> n - 1]]

\* tf.ones([filter_width, 1, 1])
Ones(fw) == [shape |-> <<fw, 1, 1>>, data |-> [n \in 1..fw |-> 1]]

(* ------------------------------ actions ------------------------------- *)

\* The state after cell 2: input_len and filter_width are the inputs and X
\* is tf.range(input_len) as [1, input_len, 1]; H, dilation and the other
\* names are not assigned yet.
Init ==
    /\ input_len \in 0..MaxLen
    /\ filter_width \in 1..MaxWidth
    /\ X = Ramp(input_len)
    /\ H = Unbound /\ dilation = Unbound
    /\ Y = Unbound /\ X_pad = Unbound /\ padded = Unbound
    /\ reshaped = Unbound /\ transposed = Unbound /\ prepared = Unbound
    /\ pc = "basic_conv"
    /\ raised = "none"

\* Basic 1D convolution: H = tf.ones([filter_width, 1, 1]);
\* Y = tf.nn.conv1d(X, H, 1, 'VALID').  H is assigned before the
\* convolution can raise.
BasicConv ==
    /\ pc = "basic_conv"
    /\ H' = Ones(filter_width)
    /\ IF Conv1dOK(X, H')
       THEN Y' = tf_nn_conv1d(X, H') /\ raised' = "none"
       ELSE Y' = Y /\ raised' = "ValueError"
    /\ pc' = "causal_pad"
    /\ UNCHANGED <<input_len, filter_width, dilation, X,
                   X_pad, padded, reshaped, transposed, prepared>>

\* Non-dilated causal convolution: X_pad = tf.pad(X, ...)
CausalPadX ==
    /\ pc = "causal_pad"
    /\ X_pad' = CausalPad(X, filter_width)
    /\ raised' = "none"
    /\ pc' = "causal_conv"
    /\ UNCHANGED <<input_len, filter_width, dilation, X, H,
                   Y, padded, reshaped, transposed, prepared>>

\* Non-dilated causal convolution: Y = tf.nn.conv1d(X_pad, H, 1, 'VALID')
CausalConvX ==
    /\ pc = "causal_conv"
    /\ IF Conv1dOK(X_pad, H)
       THEN Y' = tf_nn_conv1d(X_pad, H) /\ raised' = "none"
       ELSE Y' = Y /\ raised' = "ValueError"
    /\ pc' = "set_dilation"
    /\ UNCHANGED <<input_len, filter_width, dilation, X, H,
                   X_pad, padded, reshaped, transposed, prepared>>

\* dilation = 2: the dilated cell assigns its dilation rate, whatever the
\* name held before.  The rate is the cell's parameter (the notebook's
\* literal is NotebookDilation) and is drawn from 1..MaxDilation.
SetDilation ==
    /\ pc = "set_dilation"
    /\ dilation' \in 1..MaxDilation
    /\ pc' = "split_pad"
    /\ UNCHANGED <<input_len, filter_width, X, H,
                   Y, X_pad, padded, reshaped, transposed, prepared, raised>>

\* padded = tf.pad(X, [[0, 0], [0, (dilation - input_len % dilation) % dilation], [0, 0]])
SplitPad ==
    /\ pc = "split_pad"
    /\ padded' = Padded(X, input_len, dilation)
    /\ raised' = "none"
    /\ pc' = "split_reshape"
    /\ UNCHANGED <<input_len, filter_width, dilation, X, H,
                   Y, X_pad, reshaped, transposed, prepared>>

\* reshaped = tf.reshape(padded, [-1, dilation, 1])
SplitReshape ==
    /\ pc = "split_reshape"
    /\ ReshapeOK(padded, <<-1, dilation, 1>>)
    /\ reshaped' = Reshaped(padded, dilation)
    /\ pc' = "split_transpose"
    /\ UNCHANGED <<input_len, filter_width, dilation, X, H,
                   Y, X_pad, padded, transposed, prepared, raised>>

\* transposed = tf.transpose(reshaped, perm=[1, 0, 2])
SplitTranspose ==
    /\ pc = "split_transpose"
    /\ transposed' = tf_transpose(reshaped)
    /\ pc' = "split_subsample"
    /\ UNCHANGED <<input_len, filter_width, dilation, X, H,
                   Y, X_pad, padded, reshaped, prepared, raised>>

\* X_pad = tf.reshape(transposed, [dilation, -1, 1])
SplitSubsample ==
    /\ pc = "split_subsample"
    /\ ReshapeOK(transposed, <<dilation, -1, 1>>)
    /\ X_pad' = Subsampled(transposed, dilation)
    /\ pc' = "dilated_pad"
    /\ UNCHANGED <<input_len, filter_width, dilation, X, H,
                   Y, padded, reshaped, transposed, prepared, raised>>

\* X_pad = tf.pad(X_pad, [[0, 0], [filter_width - 1, 0], [0, 0]], 'CONSTANT')
DilatedPad ==
    /\ pc = "dilated_pad"
    /\ X_pad' = CausalPad(X_pad, filter_width)
    /\ pc' = "dilated_conv"
    /\ UNCHANGED <<input_len, filter_width, dilation, X, H,
                   Y, padded, reshaped, transposed, prepared, raised>>

\* Y = tf.nn.conv1d(X_pad, H, 1, 'VALID'); a ValueError ends the cell.
DilatedConv ==
    /\ pc = "dilated_conv"
    /\ IF Conv1dOK(X_pad, H)
       THEN Y' = tf_nn_conv1d(X_pad, H) /\ raised' = "none" /\ pc' = "merge_prepare"
       ELSE Y' = Y /\ raised' = "ValueError" /\ pc' = "done"
    /\ UNCHANGED <<input_len, filter_width, dilation, X, H,
                   X_pad, padded, reshaped, transposed, prepared>>

\* prepared = tf.reshape(Y, [dilation, -1, 1])
MergePrepare ==
    /\ pc = "merge_prepare"
    /\ ReshapeOK(Y, <<dilation, -1, 1>>)
    /\ prepared' = Subsampled(Y, dilation)
    /\ pc' = "merge_transpose"
    /\ UNCHANGED <<input_len, filter_width, dilation, X, H,
                   Y, X_pad, padded, reshaped, transposed, raised>>

\* transposed = tf.transpose(prepared, perm=[1, 0, 2])
MergeTranspose ==
    /\ pc = "merge_transpose"
    /\ transposed' = tf_transpose(prepared)
    /\ pc' = "merge_reshape"
    /\ UNCHANGED <<input_len, filter_width, dilation, X, H,
                   Y, X_pad, padded, reshaped, prepared, raised>>

\* Y = tf.reshape(transposed, [1, -1, 1])
MergeReshape ==
    /\ pc = "merge_reshape"
    /\ ReshapeOK(transposed, <<1, -1, 1>>)
    /\ Y' = Merged(transposed)
    /\ pc' = "done"
    /\ UNCHANGED <<input_len, filter_width, dilation, X, H,
                   X_pad, padded, reshaped, transposed, prepared, raised>>

Next ==
    \/ BasicConv
    \/ CausalPadX
    \/ CausalConvX
    \/ SetDilation
    \/ SplitPad
    \/ SplitReshape
    \/ SplitTranspose
    \/ SplitSubsample
    \/ DilatedPad
    \/ DilatedConv
    \/ MergePrepare
    \/ MergeTranspose
    \/ MergeReshape

Spec == Init /\ [][Next]_vars

(* ----------------------------- properties ----------------------------- *)

\* The dilated cell ran to its end without raising.
Done == pc = "done" /\ raised = "none"

\* X_pad holds the phase streams (the split is complete, the causal padding
\* is not yet applied).
SplitDone == pc = "dilated_pad"

Batch == X.shape[1]

RightPad == PadAmount(input_len, dilation)

\* C1: the dilated causal convolution returns a signal whose time length is
\* the input's time length and whose batch size is the input's batch size.
LengthInvariance ==
    Done => Y.shape[2] = input_len /\ Y.shape[1] = Batch

\* The flat positions of x whose time index is greater than i.
Future(x, i) == {n \in 1..NumEl(x) : IdxT(x.shape, n) > i}

\* x with 1 added to the samples at the flat positions in S.
Bump(x, S) ==
    [shape |-> x.shape,
     data  |-> [n \in 1..NumEl(x) |-> IF n \in S THEN x.data[n] + 1 ELSE x.data[n]]]

\* Signals that agree with x at every time index <= i: x itself changed at
\* one later sample, or at all later samples.
Perturbations(x, i) ==
    {Bump(x, {n}) : n \in Future(x, i)} \cup {Bump(x, Future(x, i))}

\* C2: two inputs that agree at every time index <= i give outputs that
\* agree at every output sample of index 0..i.
Causality ==
    Done =>
      \A i \in 0..(input_len - 1) : \A x2 \in Perturbations(X, i) :
          LET y2 == DilatedCausalConv(x2, H, input_len, dilation) IN
            /\ y2.shape = Y.shape
            /\ \A b \in 0..(Y.shape[1] - 1), j \in 0..i, o \in 0..(Y.shape[3] - 1) :
                  At(y2, b, j, o) = At(Y, b, j, o)

\* A perturbation after index i that the output does show, at a later
\* sample, under a dilation rate > 1 and a kernel wider than 1.
CausalityPerturbationSeen ==
    /\ Done /\ dilation > 1 /\ filter_width > 1
    /\ \E i \in 0..(input_len - 2) : \E x2 \in Perturbations(X, i) :
          LET y2 == DilatedCausalConv(x2, H, input_len, dilation) IN
            /\ x2 # X
            /\ \E j \in (i + 1)..(y2.shape[2] - 1) : At(y2, 0, j, 0) # At(Y, 0, j, 0)
            /\ \A j \in 0..i : At(y2, 0, j, 0) = At(Y, 0, j, 0)

\* The direct dilated causal convolution of C3: the sum over taps k and
\* channels c of x[b, i - (fw-1-k)*d, c] * h[k, c, o], samples at negative
\* time indices counting as zero.
DirectDilated(x, h, d, b, i, o) ==
    SumSeq([n \in 1..(h.shape[1] * x.shape[3]) |->
              LET k == (n - 1) \div x.shape[3]
                  c == (n - 1) % x.shape[3]
                  j == i - (h.shape[1] - 1 - k) * d
              IN  (IF j < 0 THEN 0 ELSE At(x, b, j, c)) * At(h, k, c, o)])

\* C3: every output sample (b, i, o) with i in [0, input_len) is the direct
\* dilated causal convolution of the input at (b, i, o).
PolyphaseEqualsDirect ==
    Done =>
      \A b \in 0..(Batch - 1), i \in 0..(input_len - 1), o \in 0..(H.shape[3] - 1) :
          /\ InBounds(Y, b, i, o)
          /\ At(Y, b, i, o) = DirectDilated(X, H, dilation, b, i, o)

\* A run with a dilation rate > 1 that does not divide the length, a kernel
\* wider than 1 and a signal long enough for a sample to sum fw real taps.
PolyphaseEqualsDirectReached ==
    /\ Done /\ dilation > 1 /\ filter_width > 1 /\ RightPad > 0
    /\ input_len > (filter_width - 1) * dilation
    /\ At(Y, 0, input_len - 1, 0) =
          DirectDilated(X, H, dilation, 0, input_len - 1, 0)
    /\ At(Y, 0, input_len - 1, 0) # At(CausalConv(X, H), 0, input_len - 1, 0)

\* C4: with dilation 1 the dilated causal convolution returns exactly the
\* non-dilated causal convolution of the same signal, the pad amount of the
\* split is 0 and the split leaves the signal as it is.
DilationOneEquivalence ==
    (Done /\ dilation = 1) =>
        /\ RightPad = 0
        /\ padded = X
        /\ Y = CausalConv(X, H)

\* A finished dilation-1 run with a kernel wider than 1 and several samples.
DilationOneReached ==
    Done /\ dilation = 1 /\ filter_width > 1 /\ input_len > 1

\* C5: merging the phase streams of the split, with no computation in
\* between, gives the input right-padded with pad_amount zero time-steps.
SplitMergeInverse ==
    SplitDone => Merge(X_pad, dilation) = tf_pad(X, 0, RightPad)

\* A split that right-padded the signal and reordered its samples.
SplitMergeReached ==
    /\ SplitDone /\ dilation > 1 /\ RightPad > 0
    /\ X_pad.shape[2] > 1
    /\ X_pad.data # padded.data

\* C6: input [0..7], kernel [1,1,1], dilation 2 gives [0,1,2,4,6,9,12,15].
LiteralScenario2 ==
    (pc = "done" /\ X = Ramp(8) /\ H = Ones(3) /\ dilation = NotebookDilation) =>
        /\ raised = "none"
        /\ Y.shape = <<1, 8, 1>>
        /\ Y.data = <<0, 1, 2, 4, 6, 9, 12, 15>>

LiteralScenario2Reached ==
    Done /\ X = Ramp(8) /\ H = Ones(3) /\ dilation = NotebookDilation

\* C7: with the width-1 kernel [1] the dilated causal convolution returns
\* its input exactly, for every dilation rate.
IdentityKernel ==
    (Done /\ H = Ones(1)) => Y = X

NoLengthMismatchAnyLength ==
    /\ pc = "dilated_conv" => X_pad.shape[2] >= filter_width /\ Conv1dOK(X_pad, H)
    /\ pc = "done" => raised = "none"

\* C9, amended: the same for every time length of at least 1.
NoLengthMismatch ==
    input_len >= 1 =>
        /\ pc = "dilated_conv" => X_pad.shape[2] >= filter_width /\ Conv1dOK(X_pad, H)
        /\ pc = "done" => raised = "none"

\* The tight case: a signal shorter than the dilation rate, so every stream
\* holds one sample and is exactly filter_width long once padded, and the
\* cell has returned.
NoLengthMismatchTight ==
    /\ Done
    /\ input_len >= 1 /\ input_len < dilation
    /\ filter_width > 1
    /\ X_pad.shape[2] = filter_width

\* The tags read by output sample i of the finished cell.
ReadsOf(i) == At(DilatedReads(padded, filter_width, dilation), 0, i, 0)

IsRightPadding(tag) == tag # LeftPadTag /\ tag[2] >= input_len

\* The last pad_amount retained output samples.
TailSamples == {i \in 0..(input_len - 1) : i >= input_len - RightPad}

\* C10 as stated: when pad_amount > 0, each of the last pad_amount retained
\* output samples sums at least one term read from a right-padding position.
TailReadsRightPadding ==
    (Done /\ RightPad > 0) =>
        \A i \in TailSamples : \E tag \in ReadsOf(i) : IsRightPadding(tag)

\* C10, amended: no retained output sample reads a right-padding position;
\* output sample i reads only the causal padding and samples of the first
\* batch element at time indices <= i.
RetainedReadsNoRightPadding ==
    Done =>
        \A i \in 0..(input_len - 1) : \A tag \in ReadsOf(i) :
            \/ tag = LeftPadTag
            \/ tag[1] = 0 /\ tag[2] <= i /\ ~IsRightPadding(tag)

\* A run with pad_amount > 0 and a wide kernel in which the right padding is
\* read, but only by a sample past the input's length.
RightPaddingReadPastEnd ==
    /\ Done /\ RightPad > 0 /\ filter_width > 1 /\ TailSamples # {}
    /\ \E i \in input_len..(Y.shape[2] - 1) :
          \E tag \in ReadsOf(i) : IsRightPadding(tag)

(* --------------------------- the output length ------------------------ *)

\* When the dilation rate divides the length, the output is as long as
\* the input.
DivisibleLengthInvariance == (Done /\ RightPad = 0) => LengthInvariance

\* The output length is input_len + pad_amount.
OutputLength == Done => Y.shape = <<1, input_len + RightPad, 1>>

\* When the dilation rate divides the length, the kernel [1] returns the
\* input.
DivisibleIdentityKernel == (Done /\ RightPad = 0) => IdentityKernel

====
